---- MODULE Spec2Model ----
(***************************************************************************)
(* Model of start.py: the port scan (test_port, find_free_port) and the    *)
(* "start all services" workflow (start_all) with its nested cleanup       *)
(* routine, which is both called directly and installed as the SIGINT /    *)
(* SIGTERM handler.                                                        *)
(*                                                                         *)
(* Control state.  pc is the position of the body of start_all.  stack is  *)
(* the stack of active cleanup frames: a Python signal handler runs on top *)
(* of whatever the main thread is doing, and a further signal delivered    *)
(* while a handler runs nests another frame on top of it.  The position a  *)
(* frame (or the body) was interrupted at stays recorded below the new     *)
(* frame; the SystemExit raised by sys.exit(0) surfaces at that position   *)
(* and is either swallowed by an enclosing bare "except:" or propagates.   *)
(***************************************************************************)
EXTENDS Integers, Sequences, FiniteSets, TLC

\* ------------------------------------------------------------------------
\* Bounds of the model
MaxSignals == 2       \* signals delivered in one run
PortSpan == 6         \* ports of the universe the port scan is checked on
MaxScan == 4          \* largest explicit max_attempts of the port scan check
MaxStopErrors == 1    \* terminate(), wait() or kill() calls that raise in one run

\* Program constants
BackendBase == 8082
FrontendBase == 3002
MongoPort == 27017
DefaultMaxAttempts == 10
MaxAttempts == 30

None == -1

Services == {"backend", "frontend"}
Signals == {"SIGINT", "SIGTERM"}

VARIABLES
    pc,               \* position of the body of start_all
    stack,            \* active cleanup frames, innermost last
    handlers,         \* signals whose handler is cleanup
    occupied,         \* ports something is listening on
    backend_port, frontend_port,
    proc,             \* proc[s]: backend_process / frontend_process is set
    log,              \* log[s]: backend_log / frontend_log: "None", "open", "closed"
    child,            \* child[s]: "none", "running", "reaped", "killed"
    attempt,          \* loop index i of the readiness loop in progress
    started,          \* started[s]: backend_started / frontend_started
    exit_code,        \* exit status of the launcher, None while it runs
    scan,             \* arguments and result of a find_free_port call
    \* history of the run
    sigCount,         \* signals delivered
    cleanupRuns,      \* times cleanup was entered
    cleanupDone,      \* times cleanup reached its sys.exit(0)
    stopEntries,      \* stopEntries[s]: times the stop steps of s were entered
    termCalls,        \* termCalls[s]: terminate() calls on the child of s
    failure,          \* the unrecoverable failure that occurred, "none" if none
    dumped,           \* dumped[s]: the log tail of s was read and printed
    poll,             \* check_url calls, successes and sleeps of the readiness loop in progress
    stopErrors,       \* errors raised by terminate(), wait() or kill()
    env               \* env of start_frontend: PORT and REACT_APP_API_URL, "" while unset

vars == <<pc, stack, handlers, occupied, backend_port, frontend_port, proc, log,
          child, attempt, started, exit_code, scan, sigCount, cleanupRuns,
          cleanupDone, stopEntries, termCalls, failure, dumped, poll, stopErrors,
          env>>

\* ------------------------------------------------------------------------
\* PortProbe

\* sock.connect_ex: 0 when the connect succeeds, an errno otherwise
connect_ex(port) == IF port \in occupied THEN 0 ELSE 111

test_port(port) == connect_ex(port) = 0

RECURSIVE ScanPorts(_, _)
ScanPorts(port, stop) ==
    IF port >= stop THEN None
    ELSE IF ~test_port(port) THEN port
    ELSE ScanPorts(port + 1, stop)

\* find_free_port with the range closed at its upper end
find_free_port_inclusive(start_port, max_attempts) ==
    ScanPorts(start_port, start_port + max_attempts + 1)

find_free_port(start_port, max_attempts) ==
    ScanPorts(start_port, start_port + max_attempts)

\* `if not port`: None and 0 are both falsy
Falsy(port) == port = None \/ port = 0

\* ------------------------------------------------------------------------
\* Exceptions and the frame stack

\* A cleanup frame: the step it is at, the service the step is about ("-" when
\* none), the services whose stop steps this invocation has completed and the
\* number of invocations that had run to their end when this one was entered
Frame(step, svc, done, prior) ==
    [step |-> step, svc |-> svc, done |-> done, prior |-> prior]

Top == stack[Len(stack)]

Pop(st) == SubSeq(st, 1, Len(st) - 1)

SetTop(st, f) == [st EXCEPT ![Len(st)] = f]

\* Positions of start_all that lie inside the try of check_url, whose bare
\* "except:" catches every exception, SystemExit included
InCheckUrl(mpc) == mpc \in {"b_probe", "f_probe"}

\* check_url returns False from its except clause: the loop goes on to sleep
AfterCheckUrlExcept(mpc) == IF mpc = "b_probe" THEN "b_sleep" ELSE "f_sleep"

\* Steps of cleanup that lie inside a try with a bare "except: pass"
InBareExcept(f) == f.step = "close"

\* After "except: pass" cleanup goes on with terminate()
AfterBareExcept(f) == Frame("terminate", f.svc, f.done, f.prior)

\* Exit status of a process ended by an unhandled signal
KilledStatus(sig) == IF sig = "SIGINT" THEN 130 ELSE 143

\* SystemExit raised on top of the frames st and the body position mpc: it
\* unwinds frame after frame until a bare except swallows it; unswallowed,
\* it ends the launcher with the status given to sys.exit.
RECURSIVE Unwind(_, _, _)
Unwind(st, mpc, status) ==
    IF st = <<>>
    THEN IF InCheckUrl(mpc)
         THEN [stack |-> <<>>, pc |-> AfterCheckUrlExcept(mpc), exit_code |-> None]
         ELSE [stack |-> <<>>, pc |-> "exited", exit_code |-> status]
    ELSE IF InBareExcept(st[Len(st)])
         THEN [stack |-> SetTop(st, AfterBareExcept(st[Len(st)])), pc |-> mpc,
               exit_code |-> None]
         ELSE Unwind(Pop(st), mpc, status)

\* sys.exit(status) called by the body of start_all, outside any try that
\* catches SystemExit
SysExit(status) ==
    /\ pc' = "exited"
    /\ exit_code' = status

\* ------------------------------------------------------------------------
\* cleanup

\* cleanup with its two `if <s>_process:` blocks exchanged
StopOrder_Reversed == <<"frontend", "backend">>

\* The order in which cleanup looks at the services
StopOrder == <<"backend", "frontend">>

\* cleanup with its `if <s>_process:` tests taken out
Tracked_Always(s) == TRUE

\* `if <s>_process:` : the variable holds a Popen object, not None
Tracked(s) == proc[s]

\* The frame position after the stop steps of the k-th service of StopOrder:
\* the stop steps of the next service whose process is set, else sys.exit(0)
RECURSIVE NextStop(_, _, _)
NextStop(k, done, prior) ==
    IF k >= Len(StopOrder) THEN Frame("exit", "-", done, prior)
    ELSE IF Tracked(StopOrder[k + 1]) THEN Frame("close", StopOrder[k + 1], done, prior)
    ELSE NextStop(k + 1, done, prior)

IndexOf(s) == CHOOSE k \in 1..Len(StopOrder) : StopOrder[k] = s

\* The frame moves on to n; entering the stop steps of a service is counted
Advance(n) ==
    /\ stack' = SetTop(stack, n)
    /\ stopEntries' = IF n.step = "close"
                      THEN [stopEntries EXCEPT ![n.svc] = @ + 1]
                      ELSE stopEntries

UnchangedState ==
    UNCHANGED <<handlers, occupied, backend_port, frontend_port, attempt, started,
                scan, sigCount, failure, dumped, stopErrors, env>>

\* print, write_status("Stopping services..."), `if backend_process:`
CleanupEntry ==
    /\ stack # <<>> /\ Top.step = "entry"
    /\ Advance(NextStop(0, Top.done, Top.prior))
    /\ UNCHANGED <<pc, proc, log, child, exit_code, cleanupRuns, cleanupDone, termCalls>>
    /\ UnchangedState
    /\ UNCHANGED poll

\* try: <svc>_log.close()  except: pass
CleanupCloseLog ==
    /\ stack # <<>> /\ Top.step = "close"
    /\ log' = [log EXCEPT ![Top.svc] = IF @ = "None" THEN @ ELSE "closed"]
    /\ stack' = SetTop(stack, Frame("terminate", Top.svc, Top.done, Top.prior))
    /\ UNCHANGED <<pc, proc, child, exit_code, cleanupRuns, cleanupDone, stopEntries,
                   termCalls>>
    /\ UnchangedState
    /\ UNCHANGED poll

\* <svc>_process.terminate()
CleanupTerminate ==
    /\ stack # <<>> /\ Top.step = "terminate"
    /\ termCalls' = [termCalls EXCEPT ![Top.svc] = @ + 1]
    /\ stack' = SetTop(stack, Frame("wait", Top.svc, Top.done, Top.prior))
    /\ UNCHANGED <<pc, proc, log, child, exit_code, cleanupRuns, cleanupDone, stopEntries>>
    /\ UnchangedState
    /\ UNCHANGED poll

\* <svc>_process.wait(timeout=5): returns once the child has exited (and reaps
\* it), or raises TimeoutExpired when a running child outlives the 5 seconds
CleanupWait ==
    /\ stack # <<>> /\ Top.step = "wait"
    /\ \/ /\ child' = [child EXCEPT ![Top.svc] = "reaped"]
          /\ Advance(NextStop(IndexOf(Top.svc), Top.done \cup {Top.svc}, Top.prior))
       \/ /\ child[Top.svc] = "running"
          /\ child' = child
          /\ stack' = SetTop(stack, Frame("kill", Top.svc, Top.done, Top.prior))
          /\ stopEntries' = stopEntries
    /\ UNCHANGED <<pc, proc, log, exit_code, cleanupRuns, cleanupDone, termCalls>>
    /\ UnchangedState
    /\ UNCHANGED poll

\* except subprocess.TimeoutExpired: <svc>_process.kill()
CleanupKill ==
    /\ stack # <<>> /\ Top.step = "kill"
    /\ child' = [child EXCEPT ![Top.svc] = IF @ = "running" THEN "killed" ELSE @]
    /\ Advance(NextStop(IndexOf(Top.svc), Top.done \cup {Top.svc}, Top.prior))
    /\ UNCHANGED <<pc, proc, log, exit_code, cleanupRuns, cleanupDone, termCalls>>
    /\ UnchangedState
    /\ UNCHANGED poll

\* poll after control has come back to the body at npc from the frames on top
\* of mpc: a check_url call cut short by its except clause has returned False
PollAfterUnwind(mpc, npc) ==
    IF InCheckUrl(mpc) /\ npc = AfterCheckUrlExcept(mpc)
    THEN [poll EXCEPT !.probes = @ + 1]
    ELSE poll

\* write_status("Services stopped."), sys.exit(0)
CleanupExit ==
    /\ stack # <<>> /\ Top.step = "exit"
    /\ cleanupDone' = cleanupDone + 1
    /\ LET u == Unwind(Pop(stack), pc, 0) IN
          /\ stack' = u.stack
          /\ pc' = u.pc
          /\ exit_code' = u.exit_code
          /\ poll' = PollAfterUnwind(pc, u.pc)
    /\ UNCHANGED <<proc, log, child, cleanupRuns, stopEntries, termCalls>>
    /\ UnchangedState

\* An OSError can come out of terminate(), wait() or kill() only while the
\* child has not been found exited: on an exited child the three return at once
StopMayRaise(s) == child[s] = "running"

\* Where an exception of class Exception, raised on top of the body position
\* mpc, lands: caught is the position after the except clause that catches it
\* and what that clause reports, uncaught the traceback exit with status 1
Caught(npc, what) == [stack |-> <<>>, pc |-> npc, exit_code |-> None, failure |-> what]

Exits(what) == [stack |-> <<>>, pc |-> "exited", exit_code |-> 1, failure |-> what]

LandError(mpc) ==
    IF InCheckUrl(mpc) THEN {Caught(AfterCheckUrlExcept(mpc), failure)}
    ELSE IF mpc = "compile" THEN {Exits("compile")}
    ELSE IF mpc = "npm_check" THEN {Caught("cleanup_call", "npm_install"), Exits(failure)}
    ELSE IF mpc \in {"b_open", "b_spawn", "b_store"} THEN {Exits("spawn_backend")}
    ELSE IF mpc \in {"f_open", "f_spawn", "f_store"}
         THEN {Caught("cleanup_call", "spawn_frontend")}
    ELSE {Exits(failure)}

\* The same exception raised on top of the frames st: a frame inside a bare
\* except goes on after it, every other frame is left
RECURSIVE UnwindError(_, _)
UnwindError(st, mpc) ==
    IF st = <<>> THEN LandError(mpc)
    ELSE IF InBareExcept(st[Len(st)])
         THEN {[stack |-> SetTop(st, AfterBareExcept(st[Len(st)])), pc |-> mpc,
                exit_code |-> None, failure |-> failure]}
         ELSE UnwindError(Pop(st), mpc)

\* <svc>_process.terminate(), .wait(timeout=5) or .kill() raises an OSError:
\* nothing in cleanup catches it, so the frame is left at that call
CleanupStepRaises ==
    /\ stack # <<>> /\ Top.step \in {"terminate", "wait", "kill"}
    /\ StopMayRaise(Top.svc)
    /\ stopErrors < MaxStopErrors
    /\ stopErrors' = stopErrors + 1
    /\ termCalls' = IF Top.step = "terminate"
                    THEN [termCalls EXCEPT ![Top.svc] = @ + 1]
                    ELSE termCalls
    /\ \E u \in UnwindError(Pop(stack), pc) :
          /\ stack' = u.stack
          /\ pc' = u.pc
          /\ exit_code' = u.exit_code
          /\ failure' = u.failure
          /\ poll' = PollAfterUnwind(pc, u.pc)
    /\ UNCHANGED <<handlers, occupied, backend_port, frontend_port, proc, log, child,
                   attempt, started, scan, sigCount, cleanupRuns, cleanupDone,
                   stopEntries, dumped, env>>

\* A signal is delivered to the launcher.  With cleanup installed for it, the
\* handler starts on top of whatever is running; before that the default
\* disposition ends the process.
Signal(sig) ==
    /\ pc \notin {"exited", "fp_call", "fp_done",
                 "sf_ports", "sf_dir", "sf_npm", "sf_env", "sf_run"}
    /\ sigCount < MaxSignals
    /\ sigCount' = sigCount + 1
    /\ IF sig \in handlers
       THEN /\ stack' = Append(stack, Frame("entry", "-", {}, cleanupDone))
            /\ cleanupRuns' = cleanupRuns + 1
            /\ UNCHANGED <<pc, exit_code>>
       ELSE /\ pc' = "exited"
            /\ exit_code' = KilledStatus(sig)
            /\ stack' = <<>>
            /\ UNCHANGED cleanupRuns
    /\ UNCHANGED <<handlers, occupied, backend_port, frontend_port, proc, log, child,
                   attempt, started, scan, cleanupDone, stopEntries, termCalls,
                   failure, dumped, poll, stopErrors, env>>

\* ------------------------------------------------------------------------
\* The body of start_all.  Its steps run only while no cleanup frame is active.

Body(at) == stack = <<>> /\ pc = at

\* The counts of a readiness loop that has not started
NoPolls == [probes |-> 0, successes |-> 0, sleeps |-> 0]

UnchangedHistory ==
    UNCHANGED <<sigCount, cleanupRuns, cleanupDone, stopEntries, termCalls, stopErrors,
                env>>

\* An unrecoverable failure reported by the body
Fail(what) == failure' = what

\* backend_port = find_free_port(8082); frontend_port = find_free_port(3002);
\* sys.exit(1) when either is missing
AllocatePorts ==
    /\ Body("alloc_ports")
    /\ backend_port' = find_free_port(BackendBase, DefaultMaxAttempts)
    /\ frontend_port' = find_free_port(FrontendBase, DefaultMaxAttempts)
    /\ IF Falsy(backend_port') THEN Fail("port_backend") /\ SysExit(1)
       ELSE IF Falsy(frontend_port') THEN Fail("port_frontend") /\ SysExit(1)
       ELSE pc' = "check_mongo" /\ UNCHANGED <<exit_code, failure>>
    /\ UNCHANGED <<stack, handlers, occupied, proc, log, child, attempt, started, scan,
                   dumped>>
    /\ UnchangedHistory
    /\ UNCHANGED poll

\* test_port(27017); when MongoDB is absent, a warning and input(), which
\* returns when the operator presses Enter
CheckMongo ==
    /\ \/ Body("check_mongo") /\ pc' = IF test_port(MongoPort) THEN "reg_sigint" ELSE "mongo_prompt"
       \/ Body("mongo_prompt") /\ pc' = "reg_sigint"
    /\ UNCHANGED <<stack, handlers, occupied, backend_port, frontend_port, proc, log,
                   child, attempt, started, exit_code, scan, failure, dumped>>
    /\ UnchangedHistory
    /\ UNCHANGED poll

\* signal.signal(signal.SIGINT, cleanup), then signal.signal(signal.SIGTERM, cleanup)
RegisterHandler ==
    /\ \/ Body("reg_sigint") /\ handlers' = handlers \cup {"SIGINT"} /\ pc' = "reg_sigterm"
       \/ Body("reg_sigterm") /\ handlers' = handlers \cup {"SIGTERM"} /\ pc' = "maven"
    /\ UNCHANGED <<stack, occupied, backend_port, frontend_port, proc, log, child,
                   attempt, started, exit_code, scan, failure, dumped>>
    /\ UnchangedHistory
    /\ UNCHANGED poll

\* mvn on the PATH or backend/mvnw present, else sys.exit(1)
DetermineMaven ==
    /\ Body("maven")
    /\ \E found \in BOOLEAN :
          IF found THEN pc' = "compile" /\ UNCHANGED <<exit_code, failure>>
          ELSE Fail("no_maven") /\ SysExit(1)
    /\ UNCHANGED <<stack, handlers, occupied, backend_port, frontend_port, proc, log,
                   child, attempt, started, scan, dumped>>
    /\ UnchangedHistory
    /\ UNCHANGED poll

\* run_command("<maven> clean compile"); sys.exit(1) when it fails
CompileBackend ==
    /\ Body("compile")
    /\ \E success \in BOOLEAN :
          IF success THEN pc' = "b_open" /\ UNCHANGED <<exit_code, failure>>
          ELSE Fail("compile") /\ SysExit(1)
    /\ UNCHANGED <<stack, handlers, occupied, backend_port, frontend_port, proc, log,
                   child, attempt, started, scan, dumped>>
    /\ UnchangedHistory
    /\ UNCHANGED poll

\* What the body does when opening the log or spawning the child of s raises:
\* the backend's except clause calls sys.exit(1), the frontend's calls cleanup()
LaunchFailed(s) ==
    /\ Fail(IF s = "backend" THEN "spawn_backend" ELSE "spawn_frontend")
    /\ IF s = "backend" THEN SysExit(1)
       ELSE pc' = "cleanup_call" /\ UNCHANGED exit_code

LaunchPrefix(s) == IF s = "backend" THEN "b" ELSE "f"

At(s, step) == LaunchPrefix(s) \o "_" \o step

\* <s>_log = open(<s>_log_file, 'w')
OpenLog(s) ==
    /\ Body(At(s, "open"))
    /\ \E ok \in BOOLEAN :
          IF ok THEN /\ log' = [log EXCEPT ![s] = "open"]
                     /\ pc' = At(s, "spawn")
                     /\ UNCHANGED <<exit_code, failure>>
          ELSE LaunchFailed(s) /\ UNCHANGED log
    /\ UNCHANGED <<stack, handlers, occupied, backend_port, frontend_port, proc, child,
                   attempt, started, scan, dumped>>
    /\ UnchangedHistory
    /\ UNCHANGED poll

\* subprocess.Popen(...) creates the child; its result is not yet stored
SpawnChild(s) ==
    /\ Body(At(s, "spawn"))
    /\ \E ok \in BOOLEAN :
          IF ok THEN /\ child' = [child EXCEPT ![s] = "running"]
                     /\ pc' = At(s, "store")
                     /\ UNCHANGED <<exit_code, failure>>
          ELSE LaunchFailed(s) /\ UNCHANGED child
    /\ UNCHANGED <<stack, handlers, occupied, backend_port, frontend_port, proc, log,
                   attempt, started, scan, dumped>>
    /\ UnchangedHistory
    /\ UNCHANGED poll

\* <s>_process = <the Popen object>; <s>_started = False; the loop starts at i = 0
StoreProcess(s) ==
    /\ Body(At(s, "store"))
    /\ proc' = [proc EXCEPT ![s] = TRUE]
    /\ attempt' = 0
    /\ poll' = NoPolls
    /\ pc' = At(s, "probe")
    /\ UNCHANGED <<stack, handlers, occupied, backend_port, frontend_port, log, child,
                   started, exit_code, scan, failure, dumped>>
    /\ UnchangedHistory

\* The position after the readiness loop of s has ended with a success
AfterReady(s) == IF s = "backend" THEN "npm_check" ELSE "summary"

\* One more check_url call of the loop in progress has returned, with the result ok
Polled(ok) ==
    [poll EXCEPT !.probes = @ + 1, !.successes = @ + (IF ok THEN 1 ELSE 0)]

\* if check_url(...): <s>_started = True; break
Probe(s) ==
    /\ Body(At(s, "probe"))
    /\ \E ok \in BOOLEAN :
          /\ poll' = Polled(ok)
          /\ IF ok THEN started' = [started EXCEPT ![s] = TRUE] /\ pc' = AfterReady(s)
             ELSE pc' = At(s, "sleep") /\ UNCHANGED started
    /\ UNCHANGED <<stack, handlers, occupied, backend_port, frontend_port, proc, log,
                   child, attempt, exit_code, scan, failure, dumped>>
    /\ UnchangedHistory

\* time.sleep(2), then the next i of range(30); past the last, `if not <s>_started`
Sleep(s) ==
    /\ Body(At(s, "sleep"))
    /\ attempt' = attempt + 1
    /\ poll' = [poll EXCEPT !.sleeps = @ + 1]
    /\ pc' = IF attempt' < MaxAttempts THEN At(s, "probe") ELSE At(s, "timeout")
    /\ UNCHANGED <<stack, handlers, occupied, backend_port, frontend_port, proc, log,
                   child, started, exit_code, scan, failure, dumped>>
    /\ UnchangedHistory

\* start_all without the cleanup() call that ends the backend's timeout block
AfterTimeout_FallThrough(s) == AfterReady(s)

\* start_all with a cleanup() call ending the frontend's timeout block too
AfterTimeout_AlwaysAbort(s) == "cleanup_call"

\* What follows the log dump of s: cleanup() for the backend, the rest of the
\* workflow for the frontend
AfterTimeout(s) == IF s = "backend" THEN "cleanup_call" ELSE "summary"

\* if not <s>_started: <s>_log.close(), read the log file and print its tail
ReadinessTimeout(s) ==
    /\ Body(At(s, "timeout"))
    /\ log' = [log EXCEPT ![s] = "closed"]
    /\ dumped' = [dumped EXCEPT ![s] = TRUE]
    /\ failure' = IF s = "backend" THEN "backend_timeout" ELSE failure
    /\ pc' = AfterTimeout(s)
    /\ UNCHANGED <<stack, handlers, occupied, backend_port, frontend_port, proc, child,
                   attempt, started, exit_code, scan>>
    /\ UnchangedHistory
    /\ UNCHANGED poll

\* node_modules present, or npm install; cleanup() when the install fails
InstallFrontendDeps ==
    /\ Body("npm_check")
    /\ \E outcome \in {"present", "installed", "failed"} :
          IF outcome = "failed" THEN Fail("npm_install") /\ pc' = "cleanup_call"
          ELSE pc' = "f_open" /\ UNCHANGED failure
    /\ UNCHANGED <<stack, handlers, occupied, backend_port, frontend_port, proc, log,
                   child, attempt, started, exit_code, scan, dumped>>
    /\ UnchangedHistory
    /\ UNCHANGED poll

\* cleanup() called by the body
CallCleanup ==
    /\ Body("cleanup_call")
    /\ stack' = <<Frame("entry", "-", {}, cleanupDone)>>
    /\ pc' = "in_cleanup"
    /\ cleanupRuns' = cleanupRuns + 1
    /\ UNCHANGED <<handlers, occupied, backend_port, frontend_port, proc, log, child,
                   attempt, started, exit_code, scan, sigCount, cleanupDone, stopEntries,
                   termCalls, failure, dumped, poll, stopErrors, env>>

\* "Medium Blog Platform is running!" and the access URLs
AccessSummary ==
    /\ Body("summary")
    /\ pc' = "idle"
    /\ UNCHANGED <<stack, handlers, occupied, backend_port, frontend_port, proc, log,
                   child, attempt, started, exit_code, scan, failure, dumped>>
    /\ UnchangedHistory
    /\ UNCHANGED poll

\* ------------------------------------------------------------------------
\* A call of find_free_port on its own
FindFreePortCall ==
    /\ pc = "fp_call"
    /\ scan' = [scan EXCEPT !.result = find_free_port(scan.start, scan.max)]
    /\ pc' = "fp_done"
    /\ UNCHANGED <<stack, handlers, occupied, backend_port, frontend_port, proc, log,
                   child, attempt, started, exit_code, failure, dumped>>
    /\ UnchangedHistory
    /\ UNCHANGED poll

\* ------------------------------------------------------------------------
\* start_frontend

\* start_frontend taking the backend's default port without probing it
ExpectedBackendPort_Default == BackendBase

\* backend_port = find_free_port(8082)
ExpectedBackendPort == find_free_port(BackendBase, DefaultMaxAttempts)

\* f'http://localhost:{backend_port}/api'
ApiUrl(port) == "http://localhost:" \o ToString(port) \o "/api"

UnchangedByStartFrontend ==
    UNCHANGED <<stack, handlers, occupied, proc, log, child, attempt, started, scan,
                dumped, poll, sigCount, cleanupRuns, cleanupDone, stopEntries,
                termCalls, stopErrors>>

\* frontend_port = find_free_port(3002); backend_port = find_free_port(8082);
\* sys.exit(1) when either is missing
FrontendFindPorts ==
    /\ Body("sf_ports")
    /\ frontend_port' = find_free_port(FrontendBase, DefaultMaxAttempts)
    /\ backend_port' = ExpectedBackendPort
    /\ IF Falsy(frontend_port') THEN Fail("port_frontend") /\ SysExit(1)
       ELSE IF Falsy(backend_port') THEN Fail("port_backend") /\ SysExit(1)
       ELSE pc' = "sf_dir" /\ UNCHANGED <<exit_code, failure>>
    /\ UNCHANGED env
    /\ UnchangedByStartFrontend

\* sys.exit(1) when the frontend directory does not exist
FrontendCheckDir ==
    /\ Body("sf_dir")
    /\ \E exists \in BOOLEAN :
          IF exists THEN pc' = "sf_npm" /\ UNCHANGED <<exit_code, failure>>
          ELSE Fail("no_frontend_dir") /\ SysExit(1)
    /\ UNCHANGED <<backend_port, frontend_port, env>>
    /\ UnchangedByStartFrontend

\* node_modules present, or npm install; sys.exit(1) when the install fails
FrontendInstallDeps ==
    /\ Body("sf_npm")
    /\ \E outcome \in {"present", "installed", "failed"} :
          IF outcome = "failed" THEN Fail("npm_install") /\ SysExit(1)
          ELSE pc' = "sf_env" /\ UNCHANGED <<exit_code, failure>>
    /\ UNCHANGED <<backend_port, frontend_port, env>>
    /\ UnchangedByStartFrontend

\* env['PORT'] = str(frontend_port); env['REACT_APP_API_URL'] = f'...'
FrontendSetEnv ==
    /\ Body("sf_env")
    /\ env' = [PORT |-> ToString(frontend_port),
               REACT_APP_API_URL |-> ApiUrl(backend_port)]
    /\ pc' = "sf_run"
    /\ UNCHANGED <<backend_port, frontend_port, exit_code, failure>>
    /\ UnchangedByStartFrontend

\* subprocess.run("npm start", env=env): it returns or is interrupted, and
\* start_frontend returns; any other exception ends in sys.exit(1)
FrontendRun ==
    /\ Body("sf_run")
    /\ \E outcome \in {"returned", "interrupted", "error"} :
          IF outcome = "error" THEN Fail("npm_start") /\ SysExit(1)
          ELSE SysExit(0) /\ UNCHANGED failure
    /\ UNCHANGED <<backend_port, frontend_port, env>>
    /\ UnchangedByStartFrontend

\* ------------------------------------------------------------------------
\* Specifications

BackendRange == BackendBase .. (BackendBase + DefaultMaxAttempts - 1)
FrontendRange == FrontendBase .. (FrontendBase + DefaultMaxAttempts - 1)

\* Listeners present when the launcher starts
OccupiedChoices ==
    { {MongoPort},
      {BackendBase, BackendBase + 1, BackendBase + 2},
      BackendRange \cup {MongoPort},
      FrontendRange }

InitCommon ==
    /\ stack = <<>>
    /\ handlers = {}
    /\ backend_port = None
    /\ frontend_port = None
    /\ proc = [s \in Services |-> FALSE]
    /\ log = [s \in Services |-> "None"]
    /\ child = [s \in Services |-> "none"]
    /\ attempt = 0
    /\ started = [s \in Services |-> FALSE]
    /\ exit_code = None
    /\ sigCount = 0
    /\ cleanupRuns = 0
    /\ cleanupDone = 0
    /\ stopEntries = [s \in Services |-> 0]
    /\ termCalls = [s \in Services |-> 0]
    /\ failure = "none"
    /\ dumped = [s \in Services |-> FALSE]
    /\ poll = [probes |-> 0, successes |-> 0, sleeps |-> 0]
    /\ stopErrors = 0
    /\ env = [PORT |-> "", REACT_APP_API_URL |-> ""]

Init ==
    /\ InitCommon
    /\ pc = "alloc_ports"
    /\ occupied \in OccupiedChoices
    /\ scan = [start |-> BackendBase, max |-> DefaultMaxAttempts, result |-> None]

Next ==
    \/ AllocatePorts
    \/ CheckMongo
    \/ RegisterHandler
    \/ DetermineMaven
    \/ CompileBackend
    \/ \E s \in Services : OpenLog(s)
    \/ \E s \in Services : SpawnChild(s)
    \/ \E s \in Services : StoreProcess(s)
    \/ \E s \in Services : Probe(s)
    \/ \E s \in Services : Sleep(s)
    \/ \E s \in Services : ReadinessTimeout(s)
    \/ InstallFrontendDeps
    \/ CallCleanup
    \/ AccessSummary
    \/ CleanupEntry
    \/ CleanupCloseLog
    \/ CleanupTerminate
    \/ CleanupWait
    \/ CleanupKill
    \/ CleanupExit
    \/ CleanupStepRaises
    \/ \E sig \in Signals : Signal(sig)

Spec == Init /\ [][Next]_vars

\* The port scan on its own: every start port, bound and set of listeners of a
\* small universe
PortUniverse == BackendBase .. (BackendBase + PortSpan - 1)

InitPorts ==
    /\ InitCommon
    /\ pc = "fp_call"
    /\ occupied \in SUBSET PortUniverse
    /\ \E st \in PortUniverse, mx \in (0 .. MaxScan) \cup {DefaultMaxAttempts} :
          scan = [start |-> st, max |-> mx, result |-> None]

NextPorts == FindFreePortCall

SpecPorts == InitPorts /\ [][NextPorts]_vars

\* start_frontend on its own: every set of listeners on the backend's ports,
\* with the frontend's ports free, partly taken or all taken
InitFrontend ==
    /\ InitCommon
    /\ pc = "sf_ports"
    /\ \E b \in SUBSET BackendRange, f \in {{}, {FrontendBase}, FrontendRange} :
          occupied = b \cup f
    /\ scan = [start |-> BackendBase, max |-> DefaultMaxAttempts, result |-> None]

NextFrontend ==
    \/ FrontendFindPorts
    \/ FrontendCheckDir
    \/ FrontendInstallDeps
    \/ FrontendSetEnv
    \/ FrontendRun

SpecFrontend == InitFrontend /\ [][NextFrontend]_vars

\* ------------------------------------------------------------------------
\* Properties

Stopped == {"reaped", "killed"}

Unrecoverable == {"port_backend", "port_frontend", "no_maven", "compile",
                  "spawn_backend", "spawn_frontend", "npm_install"}

\* C1: when the backend readiness probe has failed on all 30 attempts, the
\* launcher ends having printed the backend log tail and requested the
\* termination of the backend, with a non-zero exit status.
C1_BackendTimeoutExitsNonZero ==
    (pc = "exited" /\ failure = "backend_timeout")
        => /\ dumped["backend"]
           /\ termCalls["backend"] >= 1
           /\ exit_code # 0

\* A step of the body that probes readiness, launches a service or prints the
\* access summary
BodyWorkStep ==
    /\ stack = <<>>
    /\ pc \in {"b_open", "b_spawn", "b_probe", "f_open", "f_spawn", "f_probe", "summary"}
    /\ pc' # pc

\* C2: once the shutdown routine has run to its sys.exit, the body executes no
\* further readiness probe, service launch or access-summary step.
C2_NoWorkAfterShutdown == [][cleanupDone >= 1 => ~BodyWorkStep]_vars

\* C3: when the shutdown routine started by a single signal, delivered while
\* both children are tracked and running, reaches its end, both children have
\* been sent a termination request, each is reaped or has been sent a kill,
\* and the launcher exits with status 0.
C3_SignalStopsBothAndExitsZero ==
    [][(cleanupDone' > cleanupDone /\ sigCount = 1 /\ cleanupRuns = 1
            /\ \A s \in Services : proc[s])
        => /\ \A s \in Services : termCalls[s] >= 1 /\ child[s] \in Stopped
           /\ pc' = "exited"
           /\ exit_code' = 0]_vars

\* C4: the shutdown routine runs once: whatever signals are delivered, the stop
\* steps of a service are never entered a second time.
C4_ShutdownRunsOnce == \A s \in Services : stopEntries[s] <= 1

\* C5: the launcher exits with status 0 only after a signal-triggered shutdown,
\* and after an unrecoverable failure it exits with a non-zero status.
C5_ExitStatus ==
    pc = "exited"
        => /\ exit_code = 0 => sigCount >= 1
           /\ failure \in Unrecoverable => exit_code # 0

\* Positions of the body from the launch of the frontend child on
FrontendLaunched == {"f_store", "f_probe", "f_sleep", "f_timeout", "summary", "idle"}

\* C6: the frontend child exists only if the backend child has been launched
\* and recorded and a backend readiness probe has returned success.
C6_BackendHealthyBeforeFrontend ==
    (child["frontend"] # "none" \/ pc \in FrontendLaunched)
        => /\ child["backend"] # "none"
           /\ proc["backend"]
           /\ started["backend"]

C6_Witness ==
    /\ child["frontend"] = "running"
    /\ proc["frontend"]
    /\ started["backend"]
    /\ child["backend"] = "running"

\* The body is on the path that follows 30 failed frontend probes
OnFrontendTimeoutPath ==
    /\ stack = <<>>
    /\ ~started["frontend"]
    /\ pc \in {"f_timeout", "summary", "idle"}

\* C7: after 30 failed frontend probes every step that is not the delivery of
\* a signal leads on to the access summary and to the idle wait, with the log
\* tail dumped, no child state changed, no termination requested, the shutdown
\* routine not entered and the launcher not exited; the idle wait is left by
\* a signal only.
C7_FrontendTimeoutContinues ==
    [][(OnFrontendTimeoutPath /\ sigCount' = sigCount)
        => /\ pc # "idle"
           /\ pc' = (IF pc = "f_timeout" THEN "summary" ELSE "idle")
           /\ dumped'["frontend"]
           /\ child' = child
           /\ termCalls' = termCalls
           /\ cleanupRuns' = cleanupRuns
           /\ stack' = <<>>
           /\ exit_code' = None]_vars

C7_Witness ==
    /\ pc = "idle"
    /\ stack = <<>>
    /\ ~started["frontend"]
    /\ dumped["frontend"]
    /\ sigCount = 0
    /\ \A s \in Services : child[s] = "running" /\ termCalls[s] = 0

\* Positions between the opening of the log of s and the child being recorded
Launching(s) == {At(s, "spawn"), At(s, "store")}

\* C8: outside launch and teardown the log handle of a service is open exactly
\* while its child runs or its log is inspected after a readiness failure, and
\* once the launcher has exited every child is reaped and every log is closed.
C8_HandlesReleased ==
    /\ \A s \in Services :
          (stack = <<>> /\ pc \notin Launching(s) \cup {"exited"})
              => (log[s] = "open" <=> (child[s] = "running" \/ pc = At(s, "timeout")))
    /\ pc = "exited"
          => \A s \in Services : log[s] # "open" /\ child[s] \in {"none", "reaped"}

\* The ports find_free_port(scan.start, scan.max) looks at
ScanRange == scan.start .. (scan.start + scan.max - 1)

\* C9: find_free_port returns the lowest port of [start, start + max_attempts)
\* on which nothing listens, None iff every port of the range is occupied; with
\* 8082..8084 occupied and 8085 free a scan from 8082 over 4 or more ports
\* returns 8085.
C9_FindFreePort ==
    pc = "fp_done"
        => /\ scan.result = None <=> ScanRange \subseteq occupied
           /\ scan.result # None
                 => /\ scan.result \in ScanRange
                    /\ scan.result \notin occupied
                    /\ \A q \in ScanRange : q < scan.result => q \in occupied
           /\ (/\ scan.start = BackendBase
               /\ scan.max >= 4
               /\ BackendBase .. (BackendBase + 2) \subseteq occupied
               /\ (BackendBase + 3) \notin occupied)
                 => scan.result = BackendBase + 3

C9_Witness ==
    /\ pc = "fp_done"
    /\ scan.start = BackendBase
    /\ scan.max = DefaultMaxAttempts
    /\ occupied = {BackendBase, BackendBase + 1, BackendBase + 2}
    /\ scan.result = BackendBase + 3

\* Frames of the shutdown routine that are in the stop steps of service s past
\* its close, with both processes tracked
StoppingFrames(s) ==
    {i \in 1..Len(stack) :
        /\ stack[i].svc = s
        /\ stack[i].step \in {"terminate", "wait", "kill"}
        /\ \A t \in Services : proc[t]}

\* C10 as claimed: an invocation of the shutdown routine that stops both
\* children has completed the frontend's stop before it requests the backend's
\* termination.
C10_FrontendStoppedFirst ==
    \A i \in StoppingFrames("backend") :
        /\ "frontend" \in stack[i].done
        /\ termCalls["frontend"] >= 1

\* C10 as amended: an invocation of the shutdown routine that stops both
\* children has completed the backend's stop (its termination requested, and
\* its wait returned or its kill issued) before it requests the frontend's
\* termination.
C10_BackendStoppedFirst ==
    \A i \in StoppingFrames("frontend") :
        /\ "backend" \in stack[i].done
        /\ termCalls["backend"] >= 1
        /\ child["backend"] \in Stopped

C10_Witness ==
    /\ stack # <<>>
    /\ Top.svc = "frontend"
    /\ Top.step = "wait"
    /\ "backend" \in Top.done
    /\ termCalls["frontend"] = 1
    /\ child["frontend"] = "running"

\* C11: when a stop call of the shutdown routine (terminate, wait or kill)
\* raises for one child, the routine still goes on to every other tracked
\* child it has not handled yet: the invocation is not left while such a
\* child remains.
C11_StopFailureIsolated ==
    [][stopErrors' > stopErrors
          => \A t \in Services \ {Top.svc} :
                (proc[t] /\ t \notin Top.done) => Len(stack') = Len(stack)]_vars

\* The service whose readiness loop poll counts, once its process is recorded
LoopService == IF proc["frontend"] THEN "frontend" ELSE "backend"

\* That loop has ended reporting success
LoopSucceeded == proc[LoopService] /\ started[LoopService]

\* That loop has ended reporting failure
LoopFailed ==
    /\ proc[LoopService]
    /\ pc = At(LoopService, "timeout") \/ dumped[LoopService]

\* C12: a readiness loop that has ended, with success at its K-th probe or
\* with failure after 30 failed probes, has made no probe after a success and
\* has slept exactly one time less than it has probed.
C12_SleepsOneLessThanAttempts ==
    /\ poll.probes <= MaxAttempts
    /\ poll.successes <= 1
    /\ (LoopSucceeded \/ LoopFailed) => poll.sleeps = poll.probes - 1

\* The invocation of cleanup on top of the stack takes one of its stop steps
\* (close, terminate, wait or kill) on the service s
StopCall(s) ==
    /\ stack # <<>>
    /\ Top.svc = s
    /\ Top.step \in {"close", "terminate", "wait", "kill"}
    /\ Len(stack') <= Len(stack)
    /\ stack' # stack

\* C13: an invocation of the shutdown routine entered after an earlier one has
\* run to its end issues no close, terminate, wait or kill on a child that is
\* already stopped.
C13_SecondShutdownIssuesNothing ==
    [][\A s \in Services :
          (StopCall(s) /\ Top.prior >= 1) => child[s] \notin Stopped]_vars

StopSteps == {"close", "terminate", "wait", "kill"}

\* C14: whatever has been started when the shutdown routine is invoked, it
\* takes stop steps only on a service whose child has been spawned and whose
\* process and log handles are recorded, so that no stop step meets a None
\* handle; a service never recorded gets no stop step at all, and on the
\* backend-timeout path only the backend is stopped.
C14_StopsOnlyRecordedServices ==
    /\ \A i \in 1..Len(stack) :
          stack[i].step \in StopSteps
              => /\ proc[stack[i].svc]
                 /\ child[stack[i].svc] # "none"
                 /\ log[stack[i].svc] # "None"
    /\ \A s \in Services :
          ~proc[s] => /\ stopEntries[s] = 0
                      /\ termCalls[s] = 0
                      /\ \A i \in 1..Len(stack) : s \notin stack[i].done
    /\ failure = "backend_timeout"
          => /\ ~proc["frontend"]
             /\ stopEntries["frontend"] = 0
             /\ pc = "exited" => termCalls["backend"] >= 1

C14_Witness ==
    /\ failure = "backend_timeout"
    /\ stack # <<>>
    /\ Top.step = "exit"
    /\ Top.done = {"backend"}
    /\ child["frontend"] = "none"
    /\ sigCount = 0

\* C15: when start_all has exited through the shutdown routine (its sys.exit(0)
\* has ended the launcher), every child that has been spawned has been sent a
\* termination request.
C15_EverySpawnedChildTerminated ==
    (pc = "exited" /\ exit_code = 0 /\ cleanupDone >= 1)
        => \A s \in Services : child[s] # "none" => termCalls[s] >= 1

\* The ports of [8082, 8092) on which nothing listens
FreeBackendPorts == BackendRange \ occupied

\* C16: the backend port that start_frontend writes into REACT_APP_API_URL is
\* the lowest port of [8082, 8092) on which nothing listens, so the URL never
\* names a port of that range on which a backend is already listening; the
\* URL is written whenever the frontend is run.
C16_ApiUrlNamesLowestFreePort ==
    /\ pc = "sf_run" => env.REACT_APP_API_URL # ""
    /\ env.REACT_APP_API_URL # ""
          => /\ \E p \in FreeBackendPorts :
                   /\ \A q \in FreeBackendPorts : p <= q
                   /\ env.REACT_APP_API_URL = ApiUrl(p)
             /\ \A q \in BackendRange \cap occupied :
                   env.REACT_APP_API_URL # ApiUrl(q)

C16_Witness ==
    /\ pc = "sf_run"
    /\ {BackendBase, BackendBase + 1} \subseteq occupied
    /\ BackendBase + 2 \notin occupied
    /\ env.REACT_APP_API_URL = "http://localhost:8084/api"

====
